---------------------------- MODULE Spec2Model ----------------------------
(***************************************************************************)
(* Model of src/app.py: the CV screening service.                          *)
(*                                                                         *)
(* A /screen request starts one thread per uploaded CV; each thread runs   *)
(* screen_cv_job, which writes its progress into the global dictionary     *)
(* progress_store, one dictionary assignment per source line.  Clients     *)
(* read a record with /job/<job_id>/progress.  The Flask server handles    *)
(* requests in concurrent threads, so request handlers and job threads     *)
(* interleave at the granularity of their accesses to shared state.        *)
(***************************************************************************)
EXTENDS Integers, Sequences, FiniteSets, TLC

(***************************************************************************)
(* Bounds of the model.                                                    *)
(***************************************************************************)
\* Total number of job threads (and job identifiers) the model lets start.
MaxJobs == 2
\* Largest number of CVs in one /screen request.
MaxDocs == 2

\* Concurrent request-handling threads of the server.
Reqs == {"r1", "r2"}
\* Client sessions (cookie jars).
Sessions == {"s1"}
\* Names of uploaded CV files.
Filenames == {"a.pdf", "b.txt"}
\* Credentials a client may post to /login.
Emails == {"test@ke.com", "x@ke.com"}
Passwords == {"123456", "bad"}
\* Descriptions str(e) of an exception raised inside a job thread.
FaultDescs == {"boom"}

(***************************************************************************)
(* JSON / Python values.  Every value carries its kind, so that values of  *)
(* different Python types can be stored in the same place.                 *)
(***************************************************************************)
None == [kind |-> "null"]
JInt(n) == [kind |-> "int", int |-> n]
JStr(s) == [kind |-> "str", str |-> s]
JList(items) == [kind |-> "list", items |-> items]
JDict(fields) == [kind |-> "dict", fields |-> fields]

\* Python truth value of a value, as tested by `if not result`.
Truthy(v) ==
    CASE v.kind = "null" -> FALSE
      [] v.kind = "int"  -> v.int # 0
      [] v.kind = "str"  -> v.str # ""
      [] v.kind = "list" -> v.items # <<>>
      [] v.kind = "dict" -> DOMAIN v.fields # {}

(***************************************************************************)
(* Configuration                                                           *)
(***************************************************************************)
PLANS == [trial   |-> [price |-> 0,   limit |-> 3],
          starter |-> [price |-> 30,  limit |-> 15],
          pro     |-> [price |-> 100, limit |-> 50],
          premium |-> [price |-> 300, limit |-> 150]]

generate_password_hash(password) == [hash_of |-> password]
check_password_hash(pwhash, password) == pwhash.hash_of = password

VARIABLES
    mock_users,      \* email -> [id, password_hash, plan, usage_count]
    progress_store,  \* job_id -> [progress, message, result]; DOMAIN = keys present
    session,         \* session -> set holding the session's "user_id" (empty: no key)
    req,             \* request thread -> state of its screen_candidates call
    threads,         \* sequence of the started job threads (screen_cv_job calls)
    uuids,           \* number of job identifiers uuid4 has produced
    returned,        \* job identifiers that /screen responses have carried
    last_resp        \* the HTTP response sent most recently

vars == <<mock_users, progress_store, session, req, threads, uuids, returned, last_resp>>

\* Job identifiers uuid4 can produce within the bound; 0 is never produced.
JobIds == 1..MaxJobs
PollIds == 0..MaxJobs

\* uuid4(): an identifier that has not been produced before.
uuid4 == uuids + 1

IdleReq == [pc |-> "idle", user |-> "", sess |-> "", cvs |-> <<>>, i |-> 1,
            job_ids |-> <<>>, count |-> 0]

Init ==
    /\ mock_users = [e \in {"test@ke.com"} |->
                        [id |-> 1,
                         password_hash |-> generate_password_hash("123456"),
                         plan |-> "trial",
                         usage_count |-> 0]]
    /\ progress_store = <<>>
    /\ session = [s \in Sessions |-> {}]
    /\ req = [r \in Reqs |-> IdleReq]
    /\ threads = <<>>
    /\ uuids = 0
    /\ returned = {}
    /\ last_resp = [route |-> "none", code |-> 0]


(***************************************************************************)
(* Authentication: login, logout, login_required                           *)
(***************************************************************************)
\* login_required: the wrapped handler runs only if the session has "user_id".
LoggedIn(s) == session[s] # {}

Unauthorized(route, s) == [route |-> route, code |-> 401, sess |-> s]

\* POST /login
Login(s, email, password) ==
    /\ IF \/ email \notin DOMAIN mock_users
          \/ ~check_password_hash(mock_users[email].password_hash, password)
       THEN /\ last_resp' = [route |-> "login", code |-> 401, sess |-> s]
            /\ UNCHANGED session
       ELSE /\ session' = [session EXCEPT ![s] = {mock_users[email].id}]
            /\ last_resp' = [route |-> "login", code |-> 200, sess |-> s]
    /\ UNCHANGED <<mock_users, progress_store, req, threads, uuids, returned>>

\* GET /logout
Logout(s) ==
    /\ session' = [session EXCEPT ![s] = {}]
    /\ last_resp' = [route |-> "logout", code |-> 200, sess |-> s]
    /\ UNCHANGED <<mock_users, progress_store, req, threads, uuids, returned>>

(***************************************************************************)
(* POST /screen: screen_candidates                                         *)
(***************************************************************************)
\* The lists of uploaded CVs a request may carry.
CvLists == UNION {[1..n -> Filenames] : n \in 0..MaxDocs}

\* CVs of running requests for which no thread has been started yet.
RECURSIVE Pending(_)
Pending(R) ==
    IF R = {} THEN 0
    ELSE LET r == CHOOSE x \in R : TRUE
         IN (Len(req[r].cvs) + 1 - req[r].i) + Pending(R \ {r})

\* The user record of the session: next(u for u in mock_users.values() if ...).
UserOf(s) == CHOOSE e \in DOMAIN mock_users : mock_users[e].id \in session[s]

\* Lines 221-236: the login check, the usage check against the plan's limit,
\* and the reading of the uploaded CVs.
ScreenBegin(r, s, cvs) ==
    /\ req[r].pc = "idle"
    /\ uuids + Pending(Reqs) + Len(cvs) <= MaxJobs
    /\ IF ~LoggedIn(s)
       THEN /\ last_resp' = Unauthorized("screen", s)
            /\ UNCHANGED req
       ELSE IF mock_users[UserOf(s)].usage_count
                  >= PLANS[mock_users[UserOf(s)].plan].limit
       THEN /\ last_resp' = [route |-> "screen", code |-> 403, sess |-> s]
            /\ UNCHANGED req
       ELSE /\ req' = [req EXCEPT ![r] =
                          [pc |-> "loop", user |-> UserOf(s), sess |-> s, cvs |-> cvs,
                           i |-> 1, job_ids |-> <<>>, count |-> 0]]
            /\ UNCHANGED last_resp
    /\ UNCHANGED <<mock_users, progress_store, session, threads, uuids, returned>>

\* A thread as threading.Thread(target=screen_cv_job, args=...).start() leaves it.
NewThread(job_id, filename) ==
    [job_id |-> job_id, filename |-> filename, pc |-> "start",
     cv_text |-> "", result |-> None, e |-> ""]

\* ScreenLoop with the job identifier drawn once, before the loop.
ScreenLoop_OneIdPerRequest(r) ==
    /\ req[r].pc = "loop"
    /\ req[r].i <= Len(req[r].cvs)
    /\ LET job_id == IF req[r].job_ids = <<>> THEN uuid4 ELSE req[r].job_ids[1]
       IN /\ uuids' = uuids + 1
          /\ threads' = Append(threads, NewThread(job_id, req[r].cvs[req[r].i]))
          /\ req' = [req EXCEPT ![r].i = @ + 1,
                                ![r].job_ids = Append(@, job_id)]
    /\ UNCHANGED <<mock_users, progress_store, session, returned, last_resp>>

\* Lines 238-246: one iteration of the loop over the CVs.
ScreenLoop(r) ==
    /\ req[r].pc = "loop"
    /\ req[r].i <= Len(req[r].cvs)
    /\ LET job_id == uuid4
       IN /\ uuids' = uuids + 1
          /\ threads' = Append(threads, NewThread(job_id, req[r].cvs[req[r].i]))
          /\ req' = [req EXCEPT ![r].i = @ + 1,
                                ![r].job_ids = Append(@, job_id)]
    /\ UNCHANGED <<mock_users, progress_store, session, returned, last_resp>>

\* Line 248, first half: user["usage_count"] is read.
ScreenReadUsage(r) ==
    /\ req[r].pc = "loop"
    /\ req[r].i > Len(req[r].cvs)
    /\ req' = [req EXCEPT ![r].pc = "store",
                          ![r].count = mock_users[req[r].user].usage_count]
    /\ UNCHANGED <<mock_users, progress_store, session, threads, uuids, returned,
                   last_resp>>

\* ScreenReturn that joins the threads of the request before it responds.
ScreenReturn_JoinsThreads(r) ==
    /\ req[r].pc = "store"
    /\ \A t \in 1..Len(threads) :
          threads[t].job_id \in {req[r].job_ids[k] : k \in 1..Len(req[r].job_ids)}
              => threads[t].pc \in {"done", "failed"}
    /\ mock_users' = [mock_users EXCEPT ![req[r].user].usage_count = req[r].count + 1]
    /\ last_resp' = [route |-> "screen", code |-> 200, sess |-> req[r].sess,
                     job_ids |-> req[r].job_ids]
    /\ returned' = returned \cup {req[r].job_ids[k] : k \in 1..Len(req[r].job_ids)}
    /\ req' = [req EXCEPT ![r] = IdleReq]
    /\ UNCHANGED <<progress_store, session, threads, uuids>>

\* Lines 248-249: the incremented count is stored and the response is sent.
ScreenReturn(r) ==
    /\ req[r].pc = "store"
    /\ mock_users' = [mock_users EXCEPT ![req[r].user].usage_count = req[r].count + 1]
    /\ last_resp' = [route |-> "screen", code |-> 200, sess |-> req[r].sess,
                     job_ids |-> req[r].job_ids]
    /\ returned' = returned \cup {req[r].job_ids[k] : k \in 1..Len(req[r].job_ids)}
    /\ req' = [req EXCEPT ![r] = IdleReq]
    /\ UNCHANGED <<progress_store, session, threads, uuids>>

(***************************************************************************)
(* GET /job/<job_id>/progress: job_progress                                *)
(***************************************************************************)
\* job_progress without the login_required decorator.
job_progress_NoLoginCheck(s, job_id) ==
    /\ last_resp' =
          IF job_id \notin DOMAIN progress_store
          THEN [route |-> "progress", code |-> 404, sess |-> s, job_id |-> job_id]
          ELSE [route |-> "progress", code |-> 200, sess |-> s, job_id |-> job_id,
                body |-> progress_store[job_id]]
    /\ UNCHANGED <<mock_users, progress_store, session, req, threads, uuids, returned>>

\* job_progress that drops a record from the store once it has reported it
\* with progress 100.
job_progress_EvictsFinished(s, job_id) ==
    /\ last_resp' =
          IF ~LoggedIn(s) THEN Unauthorized("progress", s)
          ELSE IF job_id \notin DOMAIN progress_store
          THEN [route |-> "progress", code |-> 404, sess |-> s, job_id |-> job_id]
          ELSE [route |-> "progress", code |-> 200, sess |-> s, job_id |-> job_id,
                body |-> progress_store[job_id]]
    /\ progress_store' =
          IF /\ LoggedIn(s)
             /\ job_id \in DOMAIN progress_store
             /\ progress_store[job_id].progress = 100
          THEN [k \in DOMAIN progress_store \ {job_id} |-> progress_store[k]]
          ELSE progress_store
    /\ UNCHANGED <<mock_users, session, req, threads, uuids, returned>>

\* progress_store.get(job_id) and jsonify(job).  jsonify serialises the record
\* from one snapshot of its items, so the handler is one read of the store.
job_progress(s, job_id) ==
    /\ last_resp' =
          IF ~LoggedIn(s) THEN Unauthorized("progress", s)
          ELSE IF job_id \notin DOMAIN progress_store
          THEN [route |-> "progress", code |-> 404, sess |-> s, job_id |-> job_id]
          ELSE [route |-> "progress", code |-> 200, sess |-> s, job_id |-> job_id,
                body |-> progress_store[job_id]]
    /\ UNCHANGED <<mock_users, progress_store, session, req, threads, uuids, returned>>

(***************************************************************************)
(* File text extraction                                                    *)
(***************************************************************************)
\* What the extraction library finds in a stored file: a parser exception,
\* or the file's text (possibly empty).
FileContents == {[ok |-> FALSE], [ok |-> TRUE, text |-> ""], [ok |-> TRUE, text |-> "cv"]}

\* path.endswith(suffix), for the paths of the model.
EndsWith(path, suffix) ==
    \/ suffix = ".pdf" /\ path \in {"a.pdf"}
    \/ suffix = ".txt" /\ path \in {"b.txt"}

\* try: ... return text.strip()  except Exception: return ""
extract_text_from_pdf(file) == IF file.ok THEN file.text ELSE ""
extract_text_from_docx(file) == IF file.ok THEN file.text ELSE ""

extract_text(path, file) ==
    IF EndsWith(path, ".pdf") THEN extract_text_from_pdf(file)
    ELSE IF EndsWith(path, ".docx") THEN extract_text_from_docx(file)
    ELSE ""

(***************************************************************************)
(* The model endpoint                                                      *)
(***************************************************************************)
FullResult(name, contact, score, explanation, skills) ==
    JDict([applicant_name |-> JStr(name), contact |-> JStr(contact), score |-> score,
           explanation |-> JStr(explanation), matched_skills |-> JList(skills)])

\* JSON values the model's answer may parse to: null, an empty object, a full
\* answer, a full answer with a score out of range, an object with a score that
\* is no integer and with no other field, and a value that is no object.
JsonValues ==
    { None,
      JDict(<<>>),
      FullResult("Jane", "j@ke.com", JInt(85), "fit", <<"go">>),
      FullResult("Jane", "j@ke.com", JInt(150), "fit", <<"go">>),
      JDict([score |-> JStr("high")]),
      JList(<<"go">>) }

\* The ways a request to the endpoint fails: an exception of requests.post
\* (connection error, timeout), a non-success status, a text that is no JSON.
HttpFailures ==
    {[how |-> "exception"], [how |-> "status"], [how |-> "text", json |-> FALSE]}

\* What requests.post meets: a failure, or a body whose "response" text is JSON.
HttpOutcomes ==
    HttpFailures \cup {[how |-> "text", json |-> TRUE, value |-> v] : v \in JsonValues}

\* The failures, and the full answer with score 85.
PlainOutcomes ==
    HttpFailures \cup {[how |-> "text", json |-> TRUE,
                        value |-> FullResult("Jane", "j@ke.com", JInt(85), "fit", <<"go">>)]}

\* Lines 142-151: any exception (raise_for_status, response.json, json.loads)
\* is caught and None is returned; otherwise the parsed value is returned as is.
ollama_json_request(http) ==
    IF http.how = "text" /\ http.json THEN http.value ELSE None

(***************************************************************************)
(* The background task: screen_cv_job                                      *)
(***************************************************************************)
\* Lines 168-174: the result substituted when the model call gave none.
FallbackResult(filename) == FullResult(filename, "N/A", JInt(0), "LLM failed", <<>>)

\* ErrorResult whose explanation is the text of the model-failure result.
ErrorResult_FixedExplanation(filename, e) ==
    FullResult(filename, "N/A", JInt(0), "LLM failed", <<>>)

\* Lines 183-189: the result written by the exception handler.
ErrorResult(filename, e) == FullResult(filename, "N/A", JInt(0), e, <<>>)

Threads == 1..Len(threads)

\* StoreField with one record object shared by all the keys of the store.
StoreField_SharedRecord(job_id, field, value) ==
    progress_store' = [k \in DOMAIN progress_store |->
                          [progress_store[k] EXCEPT ![field] = value]]

\* progress_store[job_id][field] = value
StoreField(job_id, field, value) ==
    progress_store' = [progress_store EXCEPT ![job_id] = [@ EXCEPT ![field] = value]]

Goto(t, pc) == threads' = [threads EXCEPT ![t].pc = pc]

WorkerFrame == UNCHANGED <<mock_users, session, req, uuids, returned, last_resp>>

\* Line 158: the record of the job is created.
WorkerCreate(t) ==
    /\ threads[t].pc = "start"
    /\ progress_store' =
          [k \in DOMAIN progress_store \cup {threads[t].job_id} |->
              IF k = threads[t].job_id
              THEN [progress |-> 5, message |-> "Reading CV", result |-> None]
              ELSE progress_store[k]]
    /\ Goto(t, "extract")
    /\ WorkerFrame

\* Line 159: cv_text = extract_text(cv_path), the stored file holding `file`.
WorkerExtract(t, file) ==
    /\ threads[t].pc = "extract"
    /\ threads' = [threads EXCEPT ![t].pc = "progress30",
                                  ![t].cv_text = extract_text(threads[t].filename, file)]
    /\ UNCHANGED progress_store
    /\ WorkerFrame

\* Line 161
WorkerProgress30(t) ==
    /\ threads[t].pc = "progress30"
    /\ StoreField(threads[t].job_id, "progress", 30)
    /\ Goto(t, "message30")
    /\ WorkerFrame

\* Line 162
WorkerMessage30(t) ==
    /\ threads[t].pc = "message30"
    /\ StoreField(threads[t].job_id, "message", "Analyzing with AI")
    /\ Goto(t, "call")
    /\ WorkerFrame

\* Lines 164-165: the prompt is built and the model is called, the request
\* ending as `http`.  cv_text is not read after line 164, and the model
\* forgets it here.
WorkerCall(t, http) ==
    /\ threads[t].pc = "call"
    /\ threads' = [threads EXCEPT ![t].pc = "check",
                                  ![t].cv_text = "",
                                  ![t].result = ollama_json_request(http)]
    /\ UNCHANGED progress_store
    /\ WorkerFrame

\* WorkerCheck with a return where the result is substituted.
WorkerCheck_ReturnsOnFailure(t) ==
    /\ threads[t].pc = "check"
    /\ threads' = [threads EXCEPT ![t].pc = IF ~Truthy(threads[t].result)
                                            THEN "done" ELSE "progress100"]
    /\ UNCHANGED <<progress_store, mock_users, session, req, uuids, returned, last_resp>>

\* WorkerCheck without the substitution.
WorkerCheck_NoFallback(t) ==
    /\ threads[t].pc = "check"
    /\ threads' = [threads EXCEPT ![t].pc = "progress100"]
    /\ UNCHANGED <<progress_store, mock_users, session, req, uuids, returned, last_resp>>

\* Lines 167-174: if not result: result = {...}
WorkerCheck(t) ==
    /\ threads[t].pc = "check"
    /\ threads' = [threads EXCEPT ![t].pc = "progress100",
                                  ![t].result = IF ~Truthy(@)
                                                THEN FallbackResult(threads[t].filename)
                                                ELSE @]
    /\ UNCHANGED progress_store
    /\ WorkerFrame

\* Line 176
WorkerProgress100(t) ==
    /\ threads[t].pc = "progress100"
    /\ StoreField(threads[t].job_id, "progress", 100)
    /\ Goto(t, "message100")
    /\ WorkerFrame

\* Line 177
WorkerMessage100(t) ==
    /\ threads[t].pc = "message100"
    /\ StoreField(threads[t].job_id, "message", "Completed")
    /\ Goto(t, "result100")
    /\ WorkerFrame

\* Line 178
WorkerResult100(t) ==
    /\ threads[t].pc = "result100"
    /\ StoreField(threads[t].job_id, "result", threads[t].result)
    /\ Goto(t, "done")
    /\ WorkerFrame

\* Line 180: an exception that leaves line 159, 164 or 165 reaches the handler,
\* str(e) being `e`.  The functions called there catch Exception themselves,
\* so this is a fault raised outside their own handlers (a MemoryError, for one).
WorkerRaise(t, e) ==
    /\ threads[t].pc \in {"extract", "call"}
    /\ threads' = [threads EXCEPT ![t].pc = "except_progress",
                                  ![t].cv_text = "", ![t].e = e]
    /\ UNCHANGED progress_store
    /\ WorkerFrame

\* WorkerExceptProgress that sets the progress back to 0 on a fault.
WorkerExceptProgress_Resets(t) ==
    /\ threads[t].pc = "except_progress"
    /\ StoreField(threads[t].job_id, "progress", 0)
    /\ Goto(t, "except_message")
    /\ WorkerFrame

\* Line 181
WorkerExceptProgress(t) ==
    /\ threads[t].pc = "except_progress"
    /\ StoreField(threads[t].job_id, "progress", 100)
    /\ Goto(t, "except_message")
    /\ WorkerFrame

\* Line 182
WorkerExceptMessage(t) ==
    /\ threads[t].pc = "except_message"
    /\ StoreField(threads[t].job_id, "message", "Error")
    /\ Goto(t, "except_result")
    /\ WorkerFrame

\* WorkerExceptResult that drops the record of the failed job from the store.
WorkerExceptResult_DropsRecord(t) ==
    /\ threads[t].pc = "except_result"
    /\ progress_store' =
          [k \in DOMAIN progress_store \ {threads[t].job_id} |-> progress_store[k]]
    /\ Goto(t, "failed")
    /\ WorkerFrame

\* Lines 183-189
WorkerExceptResult(t) ==
    /\ threads[t].pc = "except_result"
    /\ StoreField(threads[t].job_id, "result",
                  ErrorResult(threads[t].filename, threads[t].e))
    /\ Goto(t, "failed")
    /\ WorkerFrame

\* One step of the job thread t, the model endpoint answering with one of
\* `outcomes`.
Worker(t, outcomes) ==
    /\ t \in Threads
    /\ \/ WorkerCreate(t)
       \/ \E file \in FileContents : WorkerExtract(t, file)
       \/ WorkerProgress30(t)
       \/ WorkerMessage30(t)
       \/ \E http \in outcomes : WorkerCall(t, http)
       \/ WorkerCheck(t)
       \/ WorkerProgress100(t)
       \/ WorkerMessage100(t)
       \/ WorkerResult100(t)

\* One step of the job thread t on the way through its exception handler.
WorkerFault(t) ==
    /\ t \in Threads
    /\ \/ \E e \in FaultDescs : WorkerRaise(t, e)
       \/ WorkerExceptProgress(t)
       \/ WorkerExceptMessage(t)
       \/ WorkerExceptResult(t)

(***************************************************************************)
(* The system                                                              *)
(***************************************************************************)
\* The requests of the clients and the steps of the job threads, with no
\* exception leaving the calls of a job thread.  One request thread serves the
\* /screen requests here, and sessions stay logged in.
Next ==
    \/ \E s \in Sessions, email \in Emails, password \in Passwords :
          Login(s, email, password)
    \/ \E s \in Sessions, cvs \in CvLists : ScreenBegin("r1", s, cvs)
    \/ \E r \in Reqs : ScreenLoop(r)
    \/ \E r \in Reqs : ScreenReadUsage(r)
    \/ \E r \in Reqs : ScreenReturn(r)
    \/ \E s \in Sessions, job_id \in PollIds : job_progress(s, job_id)
    \/ \E t \in JobIds : Worker(t, HttpOutcomes)

Spec == Init /\ [][Next]_vars

\* The same, with job threads that may also raise into their exception handler.
NextFault ==
    \/ Next
    \/ \E t \in JobIds : WorkerFault(t)

FaultSpec == Init /\ [][NextFault]_vars

\* The session s1 is logged in as the mock user: the state after a successful
\* POST /login.
JobsInit ==
    /\ mock_users = [e \in {"test@ke.com"} |->
                        [id |-> 1,
                         password_hash |-> generate_password_hash("123456"),
                         plan |-> "trial",
                         usage_count |-> 0]]
    /\ progress_store = <<>>
    /\ session = [s \in Sessions |-> {1}]
    /\ req = [r \in Reqs |-> IdleReq]
    /\ threads = <<>>
    /\ uuids = 0
    /\ returned = {}
    /\ last_resp = [route |-> "login", code |-> 200, sess |-> "s1"]

\* Submissions and job threads alone, of a logged-in session: polls read the
\* store and write nothing a job thread or a submission reads.  The endpoint
\* fails or gives a full answer, and no exception leaves a call.
NextJobs ==
    \/ \E s \in Sessions, cvs \in CvLists : ScreenBegin("r1", s, cvs)
    \/ \E r \in Reqs : ScreenLoop(r)
    \/ \E r \in Reqs : ScreenReadUsage(r)
    \/ \E r \in Reqs : ScreenReturn(r)
    \/ \E t \in JobIds : Worker(t, PlainOutcomes)

JobsSpec == JobsInit /\ [][NextJobs]_vars

\* Submissions of one or more CVs of one file name (an empty batch starts no
\* job), and job threads that may also raise into their exception handler.
NextJobFault ==
    \/ \E s \in Sessions, n \in 1..MaxDocs :
          ScreenBegin("r1", s, [k \in 1..n |-> "a.pdf"])
    \/ \E r \in Reqs : ScreenLoop(r)
    \/ \E r \in Reqs : ScreenReadUsage(r)
    \/ \E r \in Reqs : ScreenReturn(r)
    \/ \E t \in JobIds : Worker(t, PlainOutcomes)
    \/ \E t \in JobIds : WorkerFault(t)

JobFaultSpec == JobsInit /\ [][NextJobFault]_vars

\* The operating system schedules every started thread again and again.
FairSpec ==
    JobFaultSpec /\ \A t \in JobIds : WF_vars(Worker(t, PlainOutcomes) \/ WorkerFault(t))

\* Polls beside submissions and job threads, of a logged-in session: the
\* batches hold one file name, and the endpoint fails or gives a full answer.
NextPoll ==
    \/ \E s \in Sessions, n \in 1..MaxDocs :
          ScreenBegin("r1", s, [k \in 1..n |-> "a.pdf"])
    \/ \E r \in Reqs : ScreenLoop(r)
    \/ \E r \in Reqs : ScreenReadUsage(r)
    \/ \E r \in Reqs : ScreenReturn(r)
    \/ \E s \in Sessions, job_id \in PollIds : job_progress(s, job_id)
    \/ \E t \in JobIds : Worker(t, PlainOutcomes)

PollSpec == JobsInit /\ [][NextPoll]_vars

\* Two request threads serve /screen requests of the logged-in session at the
\* same time (the development server handles each request in its own thread),
\* beside the job threads.  The batches hold one file name and may be empty.
NextQuota ==
    \/ \E r \in Reqs, s \in Sessions, n \in 0..MaxDocs :
          ScreenBegin(r, s, [k \in 1..n |-> "a.pdf"])
    \/ \E r \in Reqs : ScreenLoop(r)
    \/ \E r \in Reqs : ScreenReadUsage(r)
    \/ \E r \in Reqs : ScreenReturn(r)
    \/ \E t \in JobIds : Worker(t, PlainOutcomes)

QuotaSpec == JobsInit /\ [][NextQuota]_vars

\* Sessions that log in, fail to log in and log out, beside submissions,
\* polls and job threads.  The batches hold one file name, and the endpoint
\* fails or gives a full answer.
NextAuth ==
    \/ \E s \in Sessions, email \in Emails, password \in Passwords :
          Login(s, email, password)
    \/ \E s \in Sessions : Logout(s)
    \/ \E s \in Sessions, n \in 1..MaxDocs :
          ScreenBegin("r1", s, [k \in 1..n |-> "a.pdf"])
    \/ \E r \in Reqs : ScreenLoop(r)
    \/ \E r \in Reqs : ScreenReadUsage(r)
    \/ \E r \in Reqs : ScreenReturn(r)
    \/ \E s \in Sessions, job_id \in PollIds : job_progress(s, job_id)
    \/ \E t \in JobIds : Worker(t, PlainOutcomes)

AuthSpec == Init /\ [][NextAuth]_vars

(***************************************************************************)
(* Properties                                                              *)
(***************************************************************************)
\* The record of job_id is in the store and has reached progress 100.
Terminal(job_id) ==
    /\ job_id \in DOMAIN progress_store
    /\ progress_store[job_id].progress = 100

\* The five fields of a screening result.
ResultFields == {"applicant_name", "contact", "score", "explanation", "matched_skills"}

\* The last response is the answer to a poll that passed the login check.
PollAnswered == last_resp.route = "progress" /\ last_resp.code \in {200, 404}

\* C1: a poll never returns a record with progress 100 and no result: the
\* terminal update of a job is seen by readers entirely or not at all.
C1_PollNeverTorn ==
    (PollAnswered /\ last_resp.code = 200)
        => ~(last_resp.body.progress = 100 /\ last_resp.body.result = None)

\* C2: once a job's record has progress 100 and its result is written, the
\* result has a score, and the score is an integer in 0..100.
C2_ScoreInRange ==
    \A j \in DOMAIN progress_store :
        (progress_store[j].progress = 100 /\ progress_store[j].result # None)
            => /\ progress_store[j].result.kind = "dict"
               /\ "score" \in DOMAIN progress_store[j].result.fields
               /\ progress_store[j].result.fields["score"].kind = "int"
               /\ progress_store[j].result.fields["score"].int \in 0..100

\* C3: every job identifier that /screen has returned has a record in the
\* store, so that a poll of it never yields not-found.
C3_ReturnedIdHasRecord ==
    \A j \in returned : j \in DOMAIN progress_store

\* C4: every job whose identifier /screen has returned eventually has a
\* record with progress 100, whatever extraction and the model call yield.
C4_EveryJobTerminates ==
    \A j \in JobIds : (j \in returned) ~> Terminal(j)

\* C4, witness: a returned job whose model call gave no usable answer has
\* reached progress 100 with the substituted result.
C4_Witness ==
    \E t \in Threads :
        /\ threads[t].job_id \in returned
        /\ threads[t].pc = "done"
        /\ Terminal(threads[t].job_id)
        /\ progress_store[threads[t].job_id].result = FallbackResult(threads[t].filename)

\* C5: no write to a job's record occurs after its progress has become 100,
\* so that every poll after the terminal state returns the identical record.
C5_TerminalRecordFrozen ==
    [][\A j \in DOMAIN progress_store :
          progress_store[j].progress = 100
              => (j \in DOMAIN progress_store' /\ progress_store'[j] = progress_store[j])]_vars

\* The job identifiers of a sequence of them.
Range(ids) == {ids[k] : k \in 1..Len(ids)}

\* The request thread r sends its response in this step.
Returns(r) == req[r].pc = "store" /\ req'[r].pc = "idle"

\* C6: a /screen request that is accepted with N documents returns N job
\* identifiers, pairwise distinct and distinct from all identifiers returned
\* before, and for each of them exactly one thread has been started, which
\* holds that identifier and the document at the identifier's position.
C6_SubmitReturnsOneJobPerDocument ==
    [][\A r \in Reqs :
          Returns(r) =>
              LET ids == last_resp'.job_ids
                  cvs == req[r].cvs
              IN /\ last_resp'.route = "screen" /\ last_resp'.code = 200
                 /\ Len(ids) = Len(cvs)
                 /\ \A k, l \in 1..Len(ids) : ids[k] = ids[l] => k = l
                 /\ Range(ids) \cap returned = {}
                 /\ \A k \in 1..Len(ids) :
                       /\ Cardinality({t \in Threads : threads[t].job_id = ids[k]}) = 1
                       /\ \A t \in Threads :
                             threads[t].job_id = ids[k] => threads[t].filename = cvs[k]
      ]_vars

\* C6, witness: a response carrying the identifiers of two documents, one of
\* each file name, has been sent, and both jobs have their thread.
C6_Witness ==
    /\ last_resp.route = "screen"
    /\ last_resp.code = 200
    /\ Len(last_resp.job_ids) = 2
    /\ \E t1, t2 \in Threads :
          /\ threads[t1].job_id = last_resp.job_ids[1]
          /\ threads[t2].job_id = last_resp.job_ids[2]
          /\ threads[t1].filename # threads[t2].filename

\* The positions of a job thread from line 176 to its end.
TerminalPcs == {"progress100", "message100", "result100", "done"}

\* C7: when the model call of a job gives no result, the job ends in the
\* normal terminal state: progress 100, the message "Completed", and a result
\* with score 0, no matched skills and a non-empty explanation.  Stated as:
\* a thread that holds no result after the call goes on to line 176 holding
\* the substituted result; from there it keeps its result up to its end; at
\* its end the record is complete and holds that result; and the substituted
\* result has score 0, no skills and an explanation.
C7_ModelFailureCompletesNormally ==
    /\ [][\A t \in Threads :
             /\ (threads[t].pc = "check" /\ threads[t].result = None
                    /\ threads'[t].pc # "check")
                   => /\ threads'[t].pc = "progress100"
                      /\ threads'[t].result = FallbackResult(threads[t].filename)
             /\ threads[t].pc \in TerminalPcs
                   => /\ threads'[t].pc \in TerminalPcs
                      /\ threads'[t].result = threads[t].result
       ]_vars
    /\ [](\A t \in Threads :
             /\ threads[t].pc = "done"
                   => /\ threads[t].job_id \in DOMAIN progress_store
                      /\ progress_store[threads[t].job_id] =
                            [progress |-> 100, message |-> "Completed",
                             result |-> threads[t].result]
             /\ (threads[t].pc \in TerminalPcs
                    /\ threads[t].result = FallbackResult(threads[t].filename))
                   => /\ threads[t].result.fields["score"] = JInt(0)
                      /\ threads[t].result.fields["matched_skills"] = JList(<<>>)
                      /\ threads[t].result.fields["explanation"].str # "")

\* C7, witness: a job whose model call gave no result has ended, and its record
\* is the completed one with the substituted result.
C7_Witness ==
    \E t \in Threads :
        /\ threads[t].pc = "done"
        /\ threads[t].result = FallbackResult(threads[t].filename)
        /\ progress_store[threads[t].job_id].message = "Completed"
        /\ progress_store[threads[t].job_id].result.fields["score"] = JInt(0)

\* The thread t takes a step.
Steps(t) == threads'[t] # threads[t]

\* C8: a job thread writes only the store entry of its own job identifier,
\* whatever its extraction and its model call do, and each store key has one
\* writer: a step of a thread leaves every other key as it is, every change
\* of a key is the step of a thread of that key, and no two threads share a
\* job identifier.
C8_WorkerWritesOwnKeyOnly ==
    /\ [][/\ \A t \in Threads :
                Steps(t) =>
                    \A k \in DOMAIN progress_store :
                        k # threads[t].job_id
                            => /\ k \in DOMAIN progress_store'
                               /\ progress_store'[k] = progress_store[k]
          /\ \A k \in DOMAIN progress_store' :
                (k \notin DOMAIN progress_store \/ progress_store'[k] # progress_store[k])
                    => \E t \in Threads : threads[t].job_id = k /\ Steps(t)
       ]_vars
    /\ [](\A t1, t2 \in Threads : threads[t1].job_id = threads[t2].job_id => t1 = t2)

\* C8, witness: of two jobs, one has met a failing model call and the other
\* has completed with the model's answer.
C8_Witness ==
    \E t1, t2 \in Threads :
        /\ t1 # t2
        /\ threads[t1].pc \in TerminalPcs
        /\ threads[t1].result = FallbackResult(threads[t1].filename)
        /\ threads[t2].pc = "done"
        /\ progress_store[threads[t2].job_id].result # FallbackResult(threads[t2].filename)
        /\ progress_store[threads[t2].job_id].message = "Completed"

\* C9: a poll for an identifier that /screen never produced yields not-found,
\* and a poll for an identifier that /screen has returned never yields
\* not-found: it yields the job's record.
C9_NotFoundOnlyForUnknownIds ==
    [][(last_resp' # last_resp /\ last_resp'.route = "progress"
            /\ last_resp'.code \in {200, 404})
          => /\ last_resp'.job_id \notin 1..uuids => last_resp'.code = 404
             /\ last_resp'.job_id \in returned => last_resp'.code = 200
      ]_vars

\* C10: every result stored at progress 100 is a fully populated result: an
\* object with all five fields.
C10_ResultFullyPopulated ==
    \A j \in DOMAIN progress_store :
        (progress_store[j].progress = 100 /\ progress_store[j].result # None)
            => /\ progress_store[j].result.kind = "dict"
               /\ DOMAIN progress_store[j].result.fields = ResultFields

\* The checkpoint states of a record: the progress and the message that one
\* step of the job's sequence sets together.
Checkpoints ==
    {<<5, "Reading CV">>, <<30, "Analyzing with AI">>,
     <<100, "Completed">>, <<100, "Error">>}

\* C11: every poll of a job sees a record that is one of the checkpoint
\* states, its progress and its message belonging to the same checkpoint:
\* never progress 30 with the message of the reading step, nor progress 100
\* with the message of the analyzing step.
C11_PollSeesCheckpoint ==
    (PollAnswered /\ last_resp.code = 200)
        => <<last_resp.body.progress, last_resp.body.message>> \in Checkpoints

\* The changes of a record's progress that keep the order of the steps:
\* reading (5), analyzing (30), terminal (100); a fault goes to 100 at once.
ProgressSteps == {<<5, 30>>, <<30, 100>>, <<5, 100>>}

\* C12: the progress of a stored record is always one of 0, 5, 30, 100, and
\* it never decreases: a record stays in the store, a new record starts at
\* the reading step, and every change of a record's progress is a step
\* forward in the order reading (5), analyzing (30), terminal (100).
C12_ProgressMonotone ==
    /\ [](\A j \in DOMAIN progress_store :
             progress_store[j].progress \in {0, 5, 30, 100})
    /\ [][/\ \A j \in DOMAIN progress_store :
                /\ j \in DOMAIN progress_store'
                /\ progress_store'[j].progress >= progress_store[j].progress
                /\ progress_store'[j].progress # progress_store[j].progress
                      => <<progress_store[j].progress, progress_store'[j].progress>>
                            \in ProgressSteps
          /\ \A j \in DOMAIN progress_store' \ DOMAIN progress_store :
                progress_store'[j].progress = 5
       ]_vars

\* C12, witness: of two jobs, one has gone through 5, 30 and 100 to its end,
\* and the other has been taken from 30 to 100 by a fault.
C12_Witness ==
    \E t1, t2 \in Threads :
        /\ threads[t1].pc = "done"
        /\ progress_store[threads[t1].job_id].progress = 100
        /\ threads[t2].pc = "except_message"
        /\ threads[t2].job_id \in DOMAIN progress_store
        /\ progress_store[threads[t2].job_id].progress = 100
        /\ progress_store[threads[t2].job_id].message = "Analyzing with AI"

\* The positions of a job thread in its exception handler and after it.
ExceptPcs == {"except_progress", "except_message", "except_result", "failed"}

\* C13: a fault raised in a job's thread does not leave the thread: the
\* thread goes through its handler to its end, where the job's record has
\* progress 100, the message "Error" and a result with score 0 whose
\* explanation is the fault's description; and the steps of the faulting
\* thread change no other job's record, no other thread, and nothing of any
\* /screen call.
C13_FaultEndsInErrorRecord ==
    /\ [](\A t \in Threads :
             threads[t].pc = "failed"
                 => /\ threads[t].job_id \in DOMAIN progress_store
                    /\ progress_store[threads[t].job_id].progress = 100
                    /\ progress_store[threads[t].job_id].message = "Error"
                    /\ progress_store[threads[t].job_id].result.kind = "dict"
                    /\ progress_store[threads[t].job_id].result.fields["score"] = JInt(0)
                    /\ progress_store[threads[t].job_id].result.fields["explanation"]
                          = JStr(threads[t].e))
    /\ [][\A t \in Threads :
             /\ threads[t].pc \in ExceptPcs
                   => /\ threads'[t].pc \in ExceptPcs
                      /\ threads'[t].e = threads[t].e
             /\ (Steps(t) /\ threads'[t].pc \in ExceptPcs)
                   => /\ \A k \in DOMAIN progress_store :
                            k # threads[t].job_id
                                => /\ k \in DOMAIN progress_store'
                                   /\ progress_store'[k] = progress_store[k]
                      /\ \A u \in Threads : u # t => threads'[u] = threads[u]
                      /\ UNCHANGED <<req, mock_users, session, uuids, returned, last_resp>>
       ]_vars

\* C13, witness: of two jobs, one has ended in its handler with the error
\* record carrying the fault's description, and the other has completed.
C13_Witness ==
    \E t1, t2 \in Threads :
        /\ threads[t1].pc = "failed"
        /\ threads[t1].e \in FaultDescs
        /\ progress_store[threads[t1].job_id] =
              [progress |-> 100, message |-> "Error",
               result |-> FullResult(threads[t1].filename, "N/A", JInt(0),
                                     threads[t1].e, <<>>)]
        /\ threads[t2].pc = "done"
        /\ progress_store[threads[t2].job_id].message = "Completed"

\* The positions of a job thread before its assignment of progress 100.
BeforeTerminalPcs ==
    {"start", "extract", "progress30", "message30", "call", "check",
     "progress100", "except_progress"}

\* C14: the progress of a job's record becomes 100 in one step, and it is
\* not set a second time: once it is 100 it stays 100, and the job's thread
\* is past its assignment of 100 and never before it again; and a record in
\* the store is never removed, nor replaced by a fresh record.
C14_TerminalOnceAndKept ==
    /\ [](\A t \in Threads :
             (threads[t].job_id \in DOMAIN progress_store
                 /\ progress_store[threads[t].job_id].progress = 100)
                 => threads[t].pc \notin BeforeTerminalPcs)
    /\ [][\A j \in DOMAIN progress_store :
             /\ j \in DOMAIN progress_store'
             /\ progress_store[j].progress = 100 => progress_store'[j].progress = 100
             /\ progress_store'[j] # progress_store[j]
                   => progress_store'[j] #
                         [progress |-> 5, message |-> "Reading CV", result |-> None]
       ]_vars

\* C14, witness: of two jobs, one has ended normally and the other in its
\* handler; both records are in the store with progress 100.
C14_Witness ==
    \E t1, t2 \in Threads :
        /\ threads[t1].pc = "done"
        /\ threads[t2].pc = "failed"
        /\ {threads[t1].job_id, threads[t2].job_id} \subseteq DOMAIN progress_store
        /\ progress_store[threads[t1].job_id].progress = 100
        /\ progress_store[threads[t2].job_id].progress = 100

\* C15: the return of /screen depends on no step of a job thread: an accepted
\* request can take its next step in every state, whatever the positions of
\* the job threads, up to its response, which carries status 200; and a step
\* of a job thread changes nothing of any request.
C15_SubmitIndependentOfWorkers ==
    /\ [](\A r \in Reqs :
             /\ (req[r].pc = "loop" /\ req[r].i <= Len(req[r].cvs))
                   => ENABLED ScreenLoop(r)
             /\ (req[r].pc = "loop" /\ req[r].i > Len(req[r].cvs))
                   => ENABLED ScreenReadUsage(r)
             /\ req[r].pc = "store" => ENABLED ScreenReturn(r))
    /\ [][/\ \A r \in Reqs :
                Returns(r) => /\ last_resp'.route = "screen"
                              /\ last_resp'.code = 200
                              /\ last_resp'.job_ids = req[r].job_ids
          /\ \A t \in Threads :
                Steps(t) => UNCHANGED <<req, mock_users, uuids, returned, last_resp>>
       ]_vars

\* C15, witness: the response to a request with two documents has been sent
\* while neither of its job threads has taken a step: both are at their
\* start, and the store has no record of either job.
C15_Witness ==
    /\ last_resp.route = "screen"
    /\ last_resp.code = 200
    /\ Len(last_resp.job_ids) = 2
    /\ \A k \in 1..2 :
          /\ last_resp.job_ids[k] \notin DOMAIN progress_store
          /\ \E t \in Threads : /\ threads[t].job_id = last_resp.job_ids[k]
                                /\ threads[t].pc = "start"

\* A response to GET /job/<job_id>/progress is sent in this step.
PollStep == last_resp' # last_resp /\ last_resp'.route = "progress"

\* C16: a poll is a pure read: for every job identifier, with or without a
\* record, and between any steps of job threads, submissions and other
\* polls, the step that answers a poll leaves the job store, the users with
\* their usage counts, the job threads and the running requests unchanged.
C16_PollIsPureRead ==
    [][PollStep => UNCHANGED <<progress_store, mock_users, threads, req, session,
                               uuids, returned>>]_vars

\* C16, witness: a poll has returned the finished record of one job while
\* the thread of another job is between two of its writes and a record
\* of that job is in the store.
C16_Witness ==
    /\ last_resp.route = "progress"
    /\ last_resp.code = 200
    /\ last_resp.body.progress = 100
    /\ last_resp.body.result # None
    /\ progress_store[last_resp.job_id] = last_resp.body
    /\ \E t \in Threads :
          /\ threads[t].job_id # last_resp.job_id
          /\ threads[t].pc = "message30"
          /\ threads[t].job_id \in DOMAIN progress_store

\* The /screen requests of the user `email` that have passed the usage check
\* and have not stored their increment of usage_count yet.
InFlight(email) == {r \in Reqs : req[r].pc # "idle" /\ req[r].user = email}

\* C17: with /screen requests of one user served at the same time, the
\* accepted submissions never exceed the limit of the user's plan, and
\* usage_count never exceeds it: the count together with the accepted
\* requests that have not stored their increment yet stays within the limit.
C17_AcceptedWithinLimit ==
    \A email \in DOMAIN mock_users :
        /\ mock_users[email].usage_count <= PLANS[mock_users[email].plan].limit
        /\ mock_users[email].usage_count + Cardinality(InFlight(email))
              <= PLANS[mock_users[email].plan].limit

\* A /screen request is answered with "Usage limit reached" in this step.
RejectStep ==
    last_resp' # last_resp /\ last_resp'.route = "screen" /\ last_resp'.code = 403

\* C18: a /screen request rejected with "Usage limit reached" creates no job
\* identifier, starts no thread and leaves the job store and usage_count
\* unchanged; an accepted request increases usage_count by exactly 1,
\* whatever the number of its documents: it leaves the count alone while it
\* starts its threads, and its last step makes the count one greater.
C18_UsageCountedOncePerRequest ==
    [][/\ RejectStep => UNCHANGED <<progress_store, mock_users, threads, uuids,
                                    returned, req>>
       /\ \A r \in Reqs :
             /\ Returns(r)
                   => mock_users'[req[r].user].usage_count
                         = mock_users[req[r].user].usage_count + 1
             /\ (req'[r] # req[r] /\ ~Returns(r)) => UNCHANGED mock_users
      ]_vars

\* C19: a session that is not logged in can neither submit nor poll: a
\* /screen or /job/<job_id>/progress request it sends is answered with
\* Unauthorized, the answer carries no record and no job identifier, the step
\* starts no thread and changes no state, and no request of the session is
\* accepted.  (A response sent in the step is that of a request received
\* in it, unless a running /screen request returns in the step.)
C19_NoAccessWithoutLogin ==
    [][\A s \in Sessions :
          ~LoggedIn(s) =>
              /\ (/\ last_resp' # last_resp
                  /\ last_resp'.route \in {"screen", "progress"}
                  /\ last_resp'.sess = s
                  /\ \A r \in Reqs : ~Returns(r))
                    => /\ last_resp' = Unauthorized(last_resp'.route, s)
                       /\ UNCHANGED <<mock_users, progress_store, session, req,
                                      threads, uuids, returned>>
              /\ \A r \in Reqs :
                    (req[r].pc = "idle" /\ req'[r].pc # "idle") => req'[r].sess # s
      ]_vars

\* C19, witness: a session that had logged in and submitted a job has logged
\* out, and its poll of that job, whose record is in the store, has been
\* answered with Unauthorized.
C19_Witness ==
    /\ last_resp = Unauthorized("progress", "s1")
    /\ ~LoggedIn("s1")
    /\ returned # {}
    /\ returned \subseteq DOMAIN progress_store
    /\ mock_users["test@ke.com"].usage_count > 0

=============================================================================
